---- MODULE Spec2Model ----
(***************************************************************************)
(* Model of run.py of PyNAM: the bounded process scheduler                 *)
(* (execute_networks), the per-job analyser (analyse_output), the result   *)
(* merger (append_analysis), the finalizer (finalize_analysis) and the     *)
(* executing modes of the main program (__main__).                         *)
(***************************************************************************)
EXTENDS Integers, Sequences, FiniteSets, TLC

(***************************************************************************)
(* Bounds of the model.                                                    *)
(***************************************************************************)
\* largest number of job files handed to execute_networks
MaxJobs == 3
\* largest value of multiprocessing.cpu_count()
MaxCpu == 2
\* largest number of job results (output files) one run analyses or joins
MaxParts == 2
\* largest number of analysis instances one job result demultiplexes into
MaxInst == 2
\* largest timing measurement of a job
MaxTime == 2

(***************************************************************************)
(* State.                                                                  *)
(***************************************************************************)
VARIABLES
    simulator,    \* execute_networks: the back-end identifier
    cpu_count,    \* multiprocessing.cpu_count() of the host
    input_files,  \* execute_networks: the job files, <<1, ..., n>>
    returncode,   \* the exit status each job's worker exits with
    concurrency,  \* execute_networks: the concurrency limit (0 before it is set)
    cmds,         \* execute_networks: the work queue
    processes,    \* execute_networks: the in-flight worker handles
    had_error,    \* execute_networks: the batch's failure flag
    pc,           \* position of execute_networks
    i,            \* index of the enumerate() of the polling loop (1-based)
    exited,       \* workers whose OS process has exited
    exited0,      \* history: the in-flight workers that had exited when the
                  \* current polling round started
    launched,     \* history: the jobs launched so far, in launch order
    outcome,      \* what execute_networks returned ("none" before it returns)
    result,       \* analyse_output_files: the running result mapping
    err_result,   \* the exception analyse_output_files died of ("none": none)
    part,         \* the mapping a worker's analyse_output builds for one job
    analysis,     \* analysis_join_output_files: the joined mapping
    err_analysis, \* the exception the join route died of ("none": none)
    reversed,     \* the parts joined in the opposite order and grouping
    err_reversed, \* the exception that join died of ("none": none)
    apc,          \* position of the analysis routes
    inst_i,       \* analyse_output: the index i of enumerate(analysis_instances)
    cur,          \* analyse_output: the analysis instance of the loop iteration
    times,        \* analyse_output: output["times"] of the current job result
    n_read,       \* number of job results read so far
    times_sum,    \* history: the sum of the timings of the jobs analysed so far
    mode,         \* __main__: params["mode"]
    main_pc,      \* position of __main__
    exit_code,    \* the exit status of the program (-1 while it runs)
    target,       \* the persisted result table files written (at most one)
    removed       \* the intermediate job and output files have been removed

svars == <<simulator, cpu_count, input_files, returncode, concurrency, cmds,
           processes, had_error, pc, i, exited, exited0, launched, outcome>>

avars == <<result, err_result, part, analysis, err_analysis, reversed,
           err_reversed, apc, inst_i, cur, times, n_read, times_sum>>

mvars == <<mode, main_pc, exit_code, target, removed>>

vars == <<svars, avars, mvars>>

(***************************************************************************)
(* execute_networks: helpers.                                              *)
(***************************************************************************)
\* the back-end identifiers the model draws from
Simulators == {"nmpm1", "pyhmf", "nest"}

\* pynl.PyNNLess.normalized_simulator_name: maps the aliases of a back-end to
\* its canonical name (an external collaborator, modelled as a lookup table)
normalized_simulator_name(s) ==
    IF s = "pyhmf" THEN "nmpm1" ELSE s

ConcurrencyAlwaysCpus(s, cpus) == cpus

\* lines 270-274: the concurrency limit
ConcurrencyLimit(s, cpus) ==
    IF normalized_simulator_name(s) = "nmpm1" THEN 1 ELSE cpus

\* the list f[1], ..., f[n]
RECURSIVE ListOf(_, _)
ListOf(f, n) == IF n = 0 THEN <<>> ELSE Append(ListOf(f, n - 1), f[n])

\* the list without its element at (1-based) position k: del processes[k]
DelAt(seq, k) == SubSeq(seq, 1, k - 1) \o SubSeq(seq, k + 1, Len(seq))

LastIsFirst(seq) == seq[1]

\* list.pop(): the last element, and the list without it
Last(seq) == seq[Len(seq)]
Front(seq) == SubSeq(seq, 1, Len(seq) - 1)

\* the elements of a sequence
Range(seq) == {seq[m] : m \in 1..Len(seq)}

LoopConditionNoErrorExit(q, procs, err) ==
    (Len(q) > 0) \/ (Len(procs) > 0)

LoopConditionNoWait(q, procs, err) == Len(q) > 0

LoopConditionStopsOnError(q, procs, err) ==
    ((Len(q) > 0) \/ (Len(procs) > 0)) /\ ~err

\* lines 282-283: the condition of the scheduling loop
LoopCondition(q, procs, err) ==
    ((Len(q) > 0) \/ (Len(procs) > 0)) /\ ~((Len(procs) = 0) /\ err)

SpawnGuardOffByOne(q, procs, err, c) ==
    (Len(procs) <= c) /\ (~err) /\ (Len(q) > 0)

SpawnGuardIgnoresError(q, procs, err, c) ==
    (Len(procs) < c) /\ (Len(q) > 0)

\* lines 285-286: the condition under which a new worker is spawned
SpawnGuard(q, procs, err, c) ==
    (Len(procs) < c) /\ (~err) /\ (Len(q) > 0)

ErrorAfterPollOverwrites(err, code) == code # 0

ErrorAfterPollNever(err, code) == err

\* lines 294-295: the failure flag after a finished worker was examined
ErrorAfterPoll(err, code) == IF code # 0 THEN TRUE ELSE err

(***************************************************************************)
(* execute_networks: the state after the call, and its steps.              *)
(***************************************************************************)
SchedInit ==
    /\ simulator \in Simulators
    /\ cpu_count \in 1..MaxCpu
    /\ \E n \in 0..MaxJobs :
          /\ input_files = ListOf([k \in 1..n |-> k], n)
          /\ returncode \in [1..n -> {0, 1}]
    /\ concurrency = 0
    /\ cmds = <<>>
    /\ processes = <<>>
    /\ had_error = FALSE
    /\ pc = "start"
    /\ i = 1
    /\ exited = {}
    /\ exited0 = {}
    /\ launched = <<>>
    /\ outcome = "none"

\* lines 267-281: more than one input file: set up the scheduling loop
Setup ==
    /\ pc = "start"
    /\ Len(input_files) > 1
    /\ concurrency' = ConcurrencyLimit(simulator, cpu_count)
    /\ cmds' = input_files
    /\ processes' = <<>>
    /\ had_error' = FALSE
    /\ pc' = "test"
    /\ UNCHANGED exited0
    /\ UNCHANGED <<simulator, cpu_count, input_files, returncode, i, exited,
                   launched, outcome>>
    /\ UNCHANGED avars
    /\ UNCHANGED mvars

\* lines 307-353: exactly one input file: executed in this process (a worker
\* runs this path too: its exit status is non-zero when the path raises)
ExecuteSingle ==
    /\ pc = "start"
    /\ Len(input_files) = 1
    /\ returncode[input_files[1]] = 0
    /\ launched' = <<input_files[1]>>
    /\ exited' = {input_files[1]}
    /\ outcome' = "true"
    /\ pc' = "done"
    /\ UNCHANGED exited0
    /\ UNCHANGED <<simulator, cpu_count, input_files, returncode, concurrency,
                   cmds, processes, had_error, i>>
    /\ UNCHANGED avars
    /\ UNCHANGED mvars

\* lines 307-353: exactly one input file, and reading or running it raises
ExecuteSingleRaises ==
    /\ pc = "start"
    /\ Len(input_files) = 1
    /\ returncode[input_files[1]] # 0
    /\ launched' = <<input_files[1]>>
    /\ exited' = {input_files[1]}
    /\ outcome' = "Exception"
    /\ pc' = "done"
    /\ UNCHANGED exited0
    /\ UNCHANGED <<simulator, cpu_count, input_files, returncode, concurrency,
                   cmds, processes, had_error, i>>
    /\ UNCHANGED avars
    /\ UNCHANGED mvars

\* line 308: no input file: input_files[0] raises IndexError
ExecuteEmpty ==
    /\ pc = "start"
    /\ Len(input_files) = 0
    /\ outcome' = "IndexError"
    /\ pc' = "done"
    /\ UNCHANGED exited0
    /\ UNCHANGED <<simulator, cpu_count, input_files, returncode, concurrency,
                   cmds, processes, had_error, i, exited, launched>>
    /\ UNCHANGED avars
    /\ UNCHANGED mvars

\* lines 282-283: the loop test
LoopTest ==
    /\ pc = "test"
    /\ pc' = IF LoopCondition(cmds, processes, had_error) THEN "spawn" ELSE "return"
    /\ UNCHANGED exited0
    /\ UNCHANGED <<simulator, cpu_count, input_files, returncode, concurrency,
                   cmds, processes, had_error, i, exited, launched, outcome>>
    /\ UNCHANGED avars
    /\ UNCHANGED mvars

\* lines 285-289: spawn one new worker for the job popped off the queue
SpawnWorker ==
    /\ pc = "spawn"
    /\ SpawnGuard(cmds, processes, had_error, concurrency)
    /\ cmds' = Front(cmds)
    /\ processes' = Append(processes, Last(cmds))
    /\ launched' = Append(launched, Last(cmds))
    /\ pc' = "poll"
    /\ i' = 1
    /\ exited0' = exited \cap Range(processes')
    /\ UNCHANGED <<simulator, cpu_count, input_files, returncode, concurrency,
                   had_error, exited, outcome>>
    /\ UNCHANGED avars
    /\ UNCHANGED mvars

\* lines 285-286: the guard is false, nothing is spawned in this round
SkipSpawn ==
    /\ pc = "spawn"
    /\ ~SpawnGuard(cmds, processes, had_error, concurrency)
    /\ pc' = "poll"
    /\ i' = 1
    /\ exited0' = exited \cap Range(processes)
    /\ UNCHANGED <<simulator, cpu_count, input_files, returncode, concurrency,
                   cmds, processes, had_error, exited, launched, outcome>>
    /\ UNCHANGED avars
    /\ UNCHANGED mvars

\* lines 292-297: one step of "for i, process in enumerate(processes)": the
\* list iterator yields the element at its index and advances, also after
\* "del processes[i]" has shortened the list
PollFinished ==
    /\ pc = "poll"
    /\ i <= Len(processes)
    /\ processes[i] \in exited
    /\ had_error' = ErrorAfterPoll(had_error, returncode[processes[i]])
    /\ processes' = DelAt(processes, i)
    /\ i' = i + 1
    /\ UNCHANGED exited0
    /\ UNCHANGED <<simulator, cpu_count, input_files, returncode, concurrency,
                   cmds, pc, exited, launched, outcome>>
    /\ UNCHANGED avars
    /\ UNCHANGED mvars

\* line 293: process.poll() is None: the worker is still running
PollRunning ==
    /\ pc = "poll"
    /\ i <= Len(processes)
    /\ processes[i] \notin exited
    /\ i' = i + 1
    /\ UNCHANGED exited0
    /\ UNCHANGED <<simulator, cpu_count, input_files, returncode, concurrency,
                   cmds, processes, had_error, pc, exited, launched, outcome>>
    /\ UNCHANGED avars
    /\ UNCHANGED mvars

\* lines 292, 300: the iterator is exhausted; sleep, then test again
Sleep ==
    /\ pc = "poll"
    /\ i > Len(processes)
    /\ pc' = "test"
    /\ UNCHANGED exited0
    /\ UNCHANGED <<simulator, cpu_count, input_files, returncode, concurrency,
                   cmds, processes, had_error, i, exited, launched, outcome>>
    /\ UNCHANGED avars
    /\ UNCHANGED mvars

\* lines 303-305: return not had_error
Return ==
    /\ pc = "return"
    /\ outcome' = IF had_error THEN "false" ELSE "true"
    /\ pc' = "done"
    /\ UNCHANGED exited0
    /\ UNCHANGED <<simulator, cpu_count, input_files, returncode, concurrency,
                   cmds, processes, had_error, i, exited, launched>>
    /\ UNCHANGED avars
    /\ UNCHANGED mvars

\* the OS process of an in-flight worker exits (with its exit status)
WorkerExit ==
    /\ \E w \in Range(processes) \ exited : exited' = exited \cup {w}
    /\ UNCHANGED exited0
    /\ UNCHANGED <<simulator, cpu_count, input_files, returncode, concurrency,
                   cmds, processes, had_error, pc, i, launched, outcome>>
    /\ UNCHANGED avars
    /\ UNCHANGED mvars

SchedStep ==
    \/ Setup
    \/ ExecuteSingle
    \/ ExecuteSingleRaises
    \/ ExecuteEmpty
    \/ LoopTest
    \/ SpawnWorker
    \/ SkipSpawn
    \/ PollFinished
    \/ PollRunning
    \/ Sleep
    \/ Return

(***************************************************************************)
(* Numbers of the result matrices: exact rationals <<numerator,            *)
(* denominator>> in lowest terms; <<1, 0>> is numpy's inf.                 *)
(***************************************************************************)
Abs(x) == IF x < 0 THEN 0 - x ELSE x

RECURSIVE GCD(_, _)
GCD(a, b) == IF b = 0 THEN a ELSE GCD(b, a % b)

\* the quotient n / d of numpy for d >= 0; <<0, 0>> is numpy's nan
Q(n, d) ==
    LET g == GCD(Abs(n), d)
    IN  IF g = 0 THEN <<0, 0>> ELSE <<n \div g, d \div g>>

Inf == <<1, 0>>
Zero == <<0, 1>>

QAdd(a, b) == Q(a[1] * b[2] + b[1] * a[2], a[2] * b[2])
QSub(a, b) == Q(a[1] * b[2] - b[1] * a[2], a[2] * b[2])
QMul(a, b) == Q(a[1] * b[1], a[2] * b[2])
QLess(a, b) == a[1] * b[2] < b[1] * a[2]

\* the square root of a rational that is a square
QSqrt(a) ==
    LET root(n) == CHOOSE r \in 0..n : r * r = n
    IN  <<root(a[1]), root(a[2])>>

RECURSIVE QSum(_)
QSum(seq) == IF Len(seq) = 0 THEN Zero ELSE QAdd(Head(seq), QSum(Tail(seq)))

\* latencies[latencies != np.inf]: the finite elements, in their order
RECURSIVE Finite(_)
Finite(seq) ==
    IF Len(seq) = 0 THEN <<>>
    ELSE IF Head(seq) # Inf THEN <<Head(seq)>> \o Finite(Tail(seq))
         ELSE Finite(Tail(seq))

(***************************************************************************)
(* The data the analyser consumes: analysis instances and job timings.     *)
(***************************************************************************)
\* the experiment names of the model
Names == {"e1", "e2"}

\* the names scipy's loadmat adds to every mapping it reads
InternalNames == {"__header__"}

\* str.startswith('__')
StartsWithDunder(name) == name \in InternalNames

\* key.split('.')
Split(key) ==
    CASE key = "data.n_samples" -> <<"data", "n_samples">>
      [] key = "topology.w" -> <<"topology", "w">>
      [] key = "data.n_ones_out" -> <<"data", "n_ones_out">>

\* analysis["meta_data"]: the same for every instance of one experiment
MetaData(name) ==
    IF name = "e1"
    THEN [experiment_name |-> "e1",
          keys |-> <<"data.n_samples", "topology.w">>,
          experiment_size |-> 2,
          simulator |-> "nest"]
    ELSE [experiment_name |-> "e2",
          keys |-> <<"topology.w">>,
          experiment_size |-> 1,
          simulator |-> "nest"]

\* what the metric functions of an analysis instance return (external
\* collaborators): calculate_storage_capactiy, calculate_max_storage_capacity,
\* calculate_latencies
Measured(tag) ==
    [I |-> tag, I_ref |-> 2 * tag, fp |-> tag, fp_ref |-> 0, fn |-> 1 - tag,
     latencies |-> IF tag = 0 THEN <<Inf, Inf>> ELSE <<Q(2, 1), Inf, Q(4, 1)>>]

\* one analysis instance of pool.build_analysis
Instance(name, s, w, tag) ==
    [meta_data |-> MetaData(name),
     data_params |-> [n_samples |-> s, n_bits_out |-> 2, n_ones_out |-> 1],
     topology_params |-> [w |-> w],
     measured |-> Measured(tag)]

\* the values a varied parameter takes
ParamValues == {0, 1}

\* the analysis instances the model draws from
Instances ==
    {Instance("e1", s, w, tag) : s \in ParamValues, w \in ParamValues,
                                 tag \in {0, 1}}
    \cup {Instance("e2", 1, w, tag) : w \in ParamValues, tag \in {0, 1}}

\* output["times"]: the timing measurements of one job
TimeKeys == {"total", "sim", "initialize", "finalize"}
JobTimes ==
    {[total |-> t + 1, sim |-> t, initialize |-> 1, finalize |-> 0] :
        t \in 1..MaxTime}
ZeroTimes == [k \in TimeKeys |-> 0]

\* the number of fixed metric columns (lines 374-376)
NumMetrics == 12
MetricKeys == <<"I", "I_n", "I_ref", "fp", "fp_n", "fp_ref", "fp_ref_n", "fn",
                "fn_n", "lat_avg", "lat_std", "n_lat_inv">>

EmptyMap == [x \in {} |-> x]

(***************************************************************************)
(* analyse_output: one iteration of its loop over the analysis instances.  *)
(***************************************************************************)
\* np.zeros(n)
ZeroRow(n) == ListOf([c \in 1..n |-> Zero], n)

\* lines 377-389: the result entry of a name seen for the first time
NewTable(meta) ==
    [keys |-> meta.keys \o MetricKeys,
     dims |-> Len(meta.keys),
     simulator |-> meta.simulator,
     time |-> ZeroTimes,
     data |-> ListOf([r \in 1..meta.experiment_size |->
                         ZeroRow(Len(meta.keys) + NumMetrics)],
                     meta.experiment_size),
     idx |-> 0]

\* lines 394-396: the accumulator with the timings of a job added
AddTimes(acc, t) == [k \in TimeKeys |-> acc[k] + t[k]]

TimeAfterInstanceUnguarded(acc, idx0, t) == AddTimes(acc, t)

\* lines 393-396: the timings are added at instance index 0 only
TimeAfterInstance(acc, idx0, t) == IF idx0 = 0 THEN AddTimes(acc, t) ELSE acc

\* lines 407-410: the nested lookup of a dotted key path
RECURSIVE Resolve(_, _)
Resolve(value, parts) ==
    IF Len(parts) = 0 THEN value ELSE Resolve(value[Head(parts)], Tail(parts))

NormalizedUnguarded(x, norm) == Q(x, norm)

\* lines 439-446: "0.0 if norm == 0.0 else x / float(norm)"
Normalized(x, norm) == IF norm = 0 THEN Zero ELSE Q(x, norm)

\* lines 417-449: the twelve metrics of an instance
Metrics(a) ==
    LET m == a.measured
        dp == a.data_params
        valid == Finite(m.latencies)
        n == Len(valid)
        mean == QMul(QSum(valid), Q(1, n))
        squares == [k \in 1..n |-> QMul(valid[k], valid[k])]
        variance == QSub(QMul(QSum(squares), Q(1, n)), QMul(mean, mean))
        norm_fp == dp.n_samples * (dp.n_bits_out - dp.n_ones_out)
        norm_fn == dp.n_samples * dp.n_ones_out
    IN  << Q(m.I, 1),
           Normalized(m.I, m.I_ref),
           Q(m.I_ref, 1),
           Q(m.fp, 1),
           Normalized(m.fp, norm_fp),
           Q(m.fp_ref, 1),
           Normalized(m.fp_ref, norm_fp),
           Q(m.fn, 1),
           Normalized(m.fn, norm_fn),
           IF n > 0 THEN mean ELSE Inf,
           IF n > 0 THEN QSqrt(variance) ELSE Zero,
           Q(Len(m.latencies) - n, 1) >>

\* lines 399-449: the row of an instance: the varied values, then the metrics
Values(a) ==
    LET params == [data |-> a.data_params, topology |-> a.topology_params]
        keys == a.meta_data.keys
    IN  ListOf([j \in 1..Len(keys) |-> Q(Resolve(params, Split(keys[j])), 1)],
               Len(keys))
        \o Metrics(a)

\* lines 369-453: the loop body for instance a at index idx0 of a job with the
\* timings t; numpy raises IndexError when the cursor is past the last row
AnalyseInstance(res, a, idx0, t) ==
    LET name == a.meta_data.experiment_name
        r1 == IF name \in DOMAIN res THEN res
              ELSE (name :> NewTable(a.meta_data)) @@ res
        r2 == [r1 EXCEPT ![name].time = TimeAfterInstance(@, idx0, t)]
        tab == r2[name]
    IN  IF tab.idx >= Len(tab.data)
        THEN [map |-> r2, err |-> "IndexError"]
        ELSE [map |-> [r2 EXCEPT ![name].data[tab.idx + 1] = Values(a),
                                 ![name].idx = tab.idx + 1],
              err |-> "none"]

(***************************************************************************)
(* append_analysis.                                                        *)
(***************************************************************************)
Min(x, y) == IF x < y THEN x ELSE y

\* the orders in which "for experiment in analysis_part" may visit the names
Orders(S) == {f \in [1..Cardinality(S) -> S] : {f[k] : k \in 1..Cardinality(S)} = S}

\* lines 471-476: d1[idx1:(idx1+idx2), :] = d2[:idx2, :] and the new cursor.
\* Both slices are clipped to the matrix; numpy assigns when the source has as
\* many rows as the target slice or exactly one row (which it broadcasts, also
\* onto an empty slice), and raises ValueError otherwise.
MergeTable(t1, t2) ==
    LET d1 == t1.data
        d2 == t2.data
        lo == Min(t1.idx, Len(d1))
        hi == Min(t1.idx + t2.idx, Len(d1))
        src == Min(t2.idx, Len(d2))
        fits == (src = hi - lo) \/ (src = 1)
        cols == \/ src = 0
                \/ Len(d1) = 0
                \/ Len(d2[1]) = Len(d1[1])
                \/ Len(d2[1]) = 1
    IN  IF fits /\ cols
        THEN [tab |-> [t1 EXCEPT
                  !.data = ListOf([r \in 1..Len(d1) |->
                      IF r > lo /\ r <= hi
                      THEN ListOf([c \in 1..Len(d1[r]) |->
                              LET row == d2[IF src = 1 THEN 1 ELSE r - lo]
                              IN  row[IF Len(row) = 1 THEN 1 ELSE c]],
                              Len(d1[r]))
                      ELSE d1[r]], Len(d1)),
                  !.idx = t1.idx + t2.idx],
              err |-> "none"]
        ELSE [tab |-> t1, err |-> "ValueError"]

\* lines 462-477: append_analysis, visiting the names of the part in an order
RECURSIVE AppendAnalysis(_, _, _)
AppendAnalysis(into, from, order) ==
    IF Len(order) = 0 THEN [map |-> into, err |-> "none"]
    ELSE LET experiment == Head(order)
         IN  IF StartsWithDunder(experiment)
             THEN AppendAnalysis(into, from, Tail(order))
             ELSE IF experiment \notin DOMAIN into
             THEN AppendAnalysis((experiment :> from[experiment]) @@ into,
                                 from, Tail(order))
             ELSE LET m == MergeTable(into[experiment], from[experiment])
                  IN  IF m.err # "none"
                      THEN [map |-> into, err |-> m.err]
                      ELSE AppendAnalysis(
                               [into EXCEPT ![experiment] = m.tab],
                               from, Tail(order))

\* scio.savemat by the worker and pynam.utils.loadmat by the join: the tables
\* come back as written, beside the names loadmat adds
LoadMat(map) == [x \in InternalNames |-> "MATLAB 5.0 MAT-file"] @@ map

(***************************************************************************)
(* finalize_analysis.                                                      *)
(***************************************************************************)
\* np.lexsort compares by its last key first: row a goes before row b when it
\* is smaller in the last of the columns 1..dims in which the two differ
RECURSIVE LexLess(_, _, _)
LexLess(a, b, dims) ==
    IF dims = 0 THEN FALSE
    ELSE IF a[dims] # b[dims] THEN QLess(a[dims], b[dims])
    ELSE LexLess(a, b, dims - 1)

\* a row put into a sorted list behind every row that is not larger
RECURSIVE InsertRow(_, _, _)
InsertRow(sorted, row, dims) ==
    IF Len(sorted) = 0 THEN <<row>>
    ELSE IF LexLess(row, Head(sorted), dims) THEN <<row>> \o sorted
    ELSE <<Head(sorted)>> \o InsertRow(Tail(sorted), row, dims)

\* line 487: data[np.lexsort(sort_keys)], a stable sort of all rows
RECURSIVE LexSort(_, _)
LexSort(data, dims) ==
    IF Len(data) = 0 THEN <<>>
    ELSE InsertRow(LexSort(SubSeq(data, 1, Len(data) - 1), dims),
                   data[Len(data)], dims)

\* lines 482-505: one table sorted and its cursor removed
FinalizeTable(res) ==
    [keys |-> res.keys,
     dims |-> res.dims,
     simulator |-> res.simulator,
     time |-> res.time,
     data |-> IF res.dims > 0 THEN LexSort(res.data, res.dims) ELSE res.data]

\* lines 479-506: finalize_analysis
FinalizeAnalysis(map) == [name \in DOMAIN map |-> FinalizeTable(map[name])]

(***************************************************************************)
(* The analysis routes. analyse_output_files (--analyse) analyses every    *)
(* job result into one running mapping, result. With --analyse-exec each   *)
(* worker analyses its job result into a mapping of its own, part, and     *)
(* analysis_join_output_files (--analyse-join) joins the parts in list     *)
(* order into analysis; reversed joins the same parts in the opposite order *)
(* and grouping. A route that raises ends (apc = "raised").                *)
(***************************************************************************)
AnalysisInit ==
    /\ result = EmptyMap
    /\ err_result = "none"
    /\ part = EmptyMap
    /\ analysis = EmptyMap
    /\ err_analysis = "none"
    /\ reversed = EmptyMap
    /\ err_reversed = "none"
    /\ apc = "read"
    /\ inst_i = 0
    /\ cur = Instance("e1", 0, 0, 0)
    /\ times = ZeroTimes
    /\ n_read = 0
    /\ times_sum = ZeroTimes

\* the scheduler is not part of the analysis routes
SchedIdle ==
    /\ simulator = "nest"
    /\ cpu_count = 1
    /\ input_files = <<>>
    /\ returncode = <<>>
    /\ concurrency = 0
    /\ cmds = <<>>
    /\ processes = <<>>
    /\ had_error = FALSE
    /\ pc = "done"
    /\ i = 1
    /\ exited = {}
    /\ exited0 = {}
    /\ launched = <<>>
    /\ outcome = "true"

joinvars == <<part, analysis, err_analysis, reversed, err_reversed>>

\* lines 525-530, 361-362: analyse_output_files reads the next job result
ReadOutputFile ==
    /\ apc = "read"
    /\ n_read < MaxParts
    /\ times' \in JobTimes
    /\ n_read' = n_read + 1
    /\ inst_i' = 0
    /\ apc' = "instances"
    /\ UNCHANGED <<result, err_result, cur, times_sum>>
    /\ UNCHANGED joinvars
    /\ UNCHANGED svars
    /\ UNCHANGED mvars

\* lines 369-453: analyse_output analyses the next analysis instance of the
\* job result into the running mapping
AnalyseNextInstance ==
    /\ apc = "instances"
    /\ inst_i < MaxInst
    /\ \E a \in Instances :
          LET b == AnalyseInstance(result, a, inst_i, times)
          IN  /\ result' = b.map
              /\ err_result' = b.err
              /\ cur' = a
              /\ apc' = IF b.err = "none" THEN "instances" ELSE "raised"
    /\ inst_i' = inst_i + 1
    /\ UNCHANGED <<times, n_read, times_sum>>
    /\ UNCHANGED joinvars
    /\ UNCHANGED svars
    /\ UNCHANGED mvars

\* lines 369, 455: the job result has no further instance
EndOfJobResult ==
    /\ apc = "instances"
    /\ times_sum' = IF inst_i >= 1 THEN AddTimes(times_sum, times) ELSE times_sum
    /\ apc' = "read"
    /\ UNCHANGED <<result, err_result, inst_i, cur, times, n_read>>
    /\ UNCHANGED joinvars
    /\ UNCHANGED svars
    /\ UNCHANGED mvars

\* line 535: finalize_analysis(result)
FinalizeResult ==
    /\ apc = "read"
    /\ result' = FinalizeAnalysis(result)
    /\ apc' = "done"
    /\ UNCHANGED <<err_result, inst_i, cur, times, n_read, times_sum>>
    /\ UNCHANGED joinvars
    /\ UNCHANGED svars
    /\ UNCHANGED mvars

AnalyseNext ==
    \/ ReadOutputFile
    \/ AnalyseNextInstance
    \/ EndOfJobResult
    \/ FinalizeResult

\* __main__ is not part of the analysis routes and of the scheduler alone
MainIdle ==
    /\ mode = "exec"
    /\ main_pc = "execute"
    /\ exit_code = -1
    /\ target = <<>>
    /\ removed = FALSE

AnalyseStart == AnalysisInit /\ SchedIdle /\ MainIdle

\* ./run.py <TARGET> --analyse <OUT_1> ... <OUT_N>
AnalyseSpec == AnalyseStart /\ [][AnalyseNext]_vars

\* lines 316-344, 361-362: a worker (--analyse-exec) has run its job and
\* starts analyse_output with a mapping of its own
WorkerStartsAnalysis ==
    /\ apc = "read"
    /\ n_read < MaxParts
    /\ times' \in JobTimes
    /\ n_read' = n_read + 1
    /\ inst_i' = 0
    /\ part' = EmptyMap
    /\ apc' = "instances"
    /\ UNCHANGED <<analysis, err_analysis, reversed, err_reversed, cur>>
    /\ UNCHANGED <<result, err_result, times_sum>>
    /\ UNCHANGED svars
    /\ UNCHANGED mvars

\* lines 369-453: the worker analyses the next analysis instance; when that
\* raises the worker fails, the batch fails and nothing is joined
WorkerAnalysesInstance ==
    /\ apc = "instances"
    /\ inst_i < MaxInst
    /\ \E a \in Instances :
          LET p == AnalyseInstance(part, a, inst_i, times)
          IN  /\ part' = p.map
              /\ cur' = a
              /\ err_analysis' = p.err
              /\ err_reversed' = p.err
              /\ apc' = IF p.err = "none" THEN "instances" ELSE "raised"
    /\ inst_i' = inst_i + 1
    /\ UNCHANGED <<analysis, reversed, times, n_read>>
    /\ UNCHANGED <<result, err_result, times_sum>>
    /\ UNCHANGED svars
    /\ UNCHANGED mvars

\* lines 511-514: the worker's mapping is written (line 349), read back and
\* appended to the joined mapping
JoinPart ==
    /\ apc = "instances"
    /\ \E order \in Orders(DOMAIN LoadMat(part)) :
       \E order2 \in Orders(DOMAIN reversed) :
          LET j == AppendAnalysis(analysis, LoadMat(part), order)
              first == AppendAnalysis(EmptyMap, LoadMat(part), order)
              r == AppendAnalysis(first.map, reversed, order2)
          IN  /\ analysis' = j.map
              /\ err_analysis' = j.err
              /\ reversed' = r.map
              /\ err_reversed' = r.err
              /\ apc' = IF j.err = "none" /\ r.err = "none" THEN "read"
                        ELSE "raised"
    /\ UNCHANGED <<part, inst_i, cur, times, n_read>>
    /\ UNCHANGED <<result, err_result, times_sum>>
    /\ UNCHANGED svars
    /\ UNCHANGED mvars

\* line 519: finalize_analysis(analysis)
FinalizeJoined ==
    /\ apc = "read"
    /\ analysis' = FinalizeAnalysis(analysis)
    /\ reversed' = FinalizeAnalysis(reversed)
    /\ apc' = "done"
    /\ UNCHANGED <<part, err_analysis, err_reversed, inst_i, cur, times, n_read>>
    /\ UNCHANGED <<result, err_result, times_sum>>
    /\ UNCHANGED svars
    /\ UNCHANGED mvars

JoinNext ==
    \/ WorkerStartsAnalysis
    \/ WorkerAnalysesInstance
    \/ JoinPart
    \/ FinalizeJoined

JoinStart == AnalysisInit /\ SchedIdle /\ MainIdle

\* ./run.py <SIMULATOR> --analyse-exec <IN_k> for every job, then
\* ./run.py <TARGET> --analyse-join <OUT_1> ... <OUT_N>
JoinSpec == JoinStart /\ [][JoinNext]_vars

\* an analysis instance of another experiment description that has the name
\* "e1" too, with the varied parameters keys
ForeignInstance(keys, s, w, tag) ==
    [Instance("e1", s, w, tag) EXCEPT !.meta_data.keys = keys]

\* the analysis instances of output files that come from experiment
\* descriptions of the same name: with the keys of "e1", with as many keys of
\* other names, and with fewer keys
MixedInstances ==
    {Instance("e1", s, 1, 1) : s \in ParamValues}
    \cup {ForeignInstance(<<"data.n_samples", "data.n_ones_out">>, s, 1, 1) :
            s \in ParamValues}
    \cup {ForeignInstance(<<"topology.w">>, 1, w, 1) : w \in ParamValues}

\* lines 369-453: the worker analyses the next analysis instance of its job;
\* the instances of one job have the same meta data
WorkerAnalysesMixedInstance ==
    /\ apc = "instances"
    /\ inst_i < MaxInst
    /\ \E a \in MixedInstances :
          /\ \A n \in DOMAIN part :
                part[n].keys = a.meta_data.keys \o MetricKeys
          /\ LET p == AnalyseInstance(part, a, inst_i, times)
             IN  /\ part' = p.map
                 /\ cur' = a
                 /\ err_analysis' = p.err
                 /\ err_reversed' = p.err
                 /\ apc' = IF p.err = "none" THEN "instances" ELSE "raised"
    /\ inst_i' = inst_i + 1
    /\ UNCHANGED <<analysis, reversed, times, n_read>>
    /\ UNCHANGED <<result, err_result, times_sum>>
    /\ UNCHANGED svars
    /\ UNCHANGED mvars

MixedJoinNext ==
    \/ WorkerStartsAnalysis
    \/ WorkerAnalysesMixedInstance
    \/ JoinPart
    \/ FinalizeJoined

MixedJoinStart == AnalysisInit /\ SchedIdle /\ MainIdle

\* ./run.py <TARGET> --analyse-join on output files of experiment
\* descriptions that share a name
MixedJoinSpec == MixedJoinStart /\ [][MixedJoinNext]_vars

\* the analysis routes are not part of the scheduler
AnalysisIdle ==
    /\ result = EmptyMap
    /\ err_result = "none"
    /\ part = EmptyMap
    /\ analysis = EmptyMap
    /\ err_analysis = "none"
    /\ reversed = EmptyMap
    /\ err_reversed = "none"
    /\ apc = "done"
    /\ inst_i = 0
    /\ cur = Instance("e1", 0, 0, 0)
    /\ times = ZeroTimes
    /\ n_read = 0
    /\ times_sum = ZeroTimes

Init == SchedInit /\ AnalysisIdle /\ MainIdle

Next == SchedStep \/ WorkerExit

Spec == Init /\ [][Next]_vars

\* every launched worker eventually exits, and the scheduler keeps running
LiveSpec == Spec /\ WF_vars(SchedStep) /\ WF_vars(WorkerExit)

(***************************************************************************)
(* __main__: the modes that execute networks. In the modes "process" and   *)
(* "process-keep" the program creates the job files, executes them and     *)
(* combines the output files into the target file.                        *)
(***************************************************************************)
Modes == {"exec", "analyse-exec", "process", "process-keep"}

\* pool.build_analysis for job k of a batch of n jobs: one instance of the
\* experiment "e1", which has as many instances as the batch has jobs (the
\* jobs 1 and 3 have the same varied parameters and different measurements)
PoolInstances(k, n) ==
    << [Instance("e1", (k + 1) % 2, IF k = 2 THEN 0 ELSE 1, ((k \div 2) + 1) % 2)
           EXCEPT !.meta_data.experiment_size = n] >>

\* sim.get_time_info() of job k
PoolTimes(k) ==
    [total |-> (k % MaxTime) + 2, sim |-> (k % MaxTime) + 1,
     initialize |-> 1, finalize |-> 0]

\* lines 355-455: analyse_output(output, result) for a job result with the
\* instances insts and the timings t, from instance index idx0 on
RECURSIVE AnalyseOutput(_, _, _, _)
AnalyseOutput(res, insts, idx0, t) ==
    IF idx0 >= Len(insts) THEN [map |-> res, err |-> "none"]
    ELSE LET b == AnalyseInstance(res, insts[idx0 + 1], idx0, t)
         IN  IF b.err # "none" THEN b
             ELSE AnalyseOutput(b.map, insts, idx0 + 1, t)

\* the order in which "for experiment in analysis_part" visits the names of a
\* mapping (fixed for a given set of names)
DictOrder(S) == CHOOSE f \in Orders(S) : TRUE

\* lines 508-514: analysis_join_output_files over the output files of the jobs
\* in files (a batch of n jobs); written is the set of jobs whose worker has
\* written its output file. Opening a missing file raises IOError.
RECURSIVE JoinOutputFiles(_, _, _, _)
JoinOutputFiles(acc, files, n, written) ==
    IF Len(files) = 0 THEN [map |-> acc, err |-> "none"]
    ELSE IF Head(files) \notin written THEN [map |-> acc, err |-> "IOError"]
    ELSE LET k == Head(files)
             p == LoadMat(AnalyseOutput(EmptyMap, PoolInstances(k, n), 0,
                                        PoolTimes(k)).map)
             j == AppendAnalysis(acc, p, DictOrder(DOMAIN p))
         IN  IF j.err # "none" THEN j
             ELSE JoinOutputFiles(j.map, Tail(files), n, written)

\* lines 522-530: analyse_output_files over the raw output files of the jobs
RECURSIVE AnalyseOutputFiles(_, _, _, _)
AnalyseOutputFiles(acc, files, n, written) ==
    IF Len(files) = 0 THEN [map |-> acc, err |-> "none"]
    ELSE IF Head(files) \notin written THEN [map |-> acc, err |-> "IOError"]
    ELSE LET k == Head(files)
             b == AnalyseOutput(acc, PoolInstances(k, n), 0, PoolTimes(k))
         IN  IF b.err # "none" THEN b
             ELSE AnalyseOutputFiles(b.map, Tail(files), n, written)

\* lines 346-353: a worker writes its output file before it exits with status
\* 0; the output files present are those of the workers that exited so
WrittenFiles == {k \in exited : returncode[k] = 0}

\* lines 585-588: the target of the modes "process" and "process-keep" from
\* the output files, in the order of the list create_networks returned
CombineOutputFiles(m, files, written) ==
    IF m = "process"
    THEN JoinOutputFiles(EmptyMap, files, Len(files), written)
    ELSE AnalyseOutputFiles(EmptyMap, files, Len(files), written)

MainInit ==
    /\ mode \in Modes
    /\ main_pc = "execute"
    /\ exit_code = -1
    /\ target = <<>>
    /\ removed = FALSE

MainAbortsNever(ok) == FALSE

\* lines 553-555, 575-576: "if not execute_networks(...): sys.exit(1)"
MainAborts(ok) == ~ok

\* lines 553-555, 575-576: execute_networks returned; on failure the program
\* exits with status 1
MainExit1 ==
    /\ main_pc = "execute"
    /\ pc = "done"
    /\ outcome \in {"true", "false"}
    /\ MainAborts(outcome = "true")
    /\ exit_code' = 1
    /\ main_pc' = "exited"
    /\ UNCHANGED <<mode, target, removed>>
    /\ UNCHANGED svars
    /\ UNCHANGED avars

\* lines 308-353: execute_networks raised; the uncaught exception ends the
\* program with status 1
MainRaised ==
    /\ main_pc = "execute"
    /\ pc = "done"
    /\ outcome \in {"IndexError", "Exception"}
    /\ exit_code' = 1
    /\ main_pc' = "exited"
    /\ UNCHANGED <<mode, target, removed>>
    /\ UNCHANGED svars
    /\ UNCHANGED avars

\* lines 552-555, 607-608: the modes exec and analyse-exec end after the batch
MainExecDone ==
    /\ main_pc = "execute"
    /\ pc = "done"
    /\ outcome \in {"true", "false"}
    /\ ~MainAborts(outcome = "true")
    /\ mode \in {"exec", "analyse-exec"}
    /\ exit_code' = 0
    /\ main_pc' = "exited"
    /\ UNCHANGED <<mode, target, removed>>
    /\ UNCHANGED svars
    /\ UNCHANGED avars

\* lines 578-608: the modes process and process-keep combine the output files
\* into the target file, remove the intermediate files unless they are kept,
\* and exit with status 0; an exception of the combination ends the program
MainProcess ==
    /\ main_pc = "execute"
    /\ pc = "done"
    /\ outcome \in {"true", "false"}
    /\ ~MainAborts(outcome = "true")
    /\ mode \in {"process", "process-keep"}
    /\ LET c == CombineOutputFiles(mode, input_files, WrittenFiles)
       IN  IF c.err = "none"
           THEN /\ target' = <<FinalizeAnalysis(c.map)>>
                /\ removed' = (mode = "process")
                /\ exit_code' = 0
           ELSE /\ target' = <<>>
                /\ removed' = FALSE
                /\ exit_code' = 1
    /\ main_pc' = "exited"
    /\ UNCHANGED mode
    /\ UNCHANGED svars
    /\ UNCHANGED avars

MainStep ==
    \/ MainExit1
    \/ MainRaised
    \/ MainExecDone
    \/ MainProcess

MainStart == SchedInit /\ AnalysisIdle /\ MainInit

MainNext == SchedStep \/ WorkerExit \/ MainStep

\* ./run.py <SIMULATOR> --exec / --analyse-exec / --process / --process-keep
MainSpec == MainStart /\ [][MainNext]_vars

(***************************************************************************)
(* Properties of the scheduler.                                            *)
(***************************************************************************)
\* the multi-job path is being executed (the loop has been set up)
InMultiJobPath == Len(input_files) > 1 /\ pc # "start"

\* C1: in the multi-job path the number of in-flight workers never exceeds
\* the concurrency limit, and the limit is at least 1.
C1_InFlightAtMostConcurrency ==
    InMultiJobPath => (concurrency >= 1 /\ Len(processes) <= concurrency)

\* C1 witness: the limit of two workers is reached while work is still queued
\* and the scheduler is about to decide on a spawn.
C1_Witness ==
    /\ InMultiJobPath
    /\ pc = "spawn"
    /\ concurrency = 2
    /\ Len(processes) = 2
    /\ Len(cmds) > 0

\* C2: for more than one job, execute_networks returns true iff all jobs were
\* launched and each exited with status 0; every launched worker has exited and
\* been examined by then, so a non-zero status of a launched worker is recorded
\* and makes the result false.
C2_TrueIffAllLaunchedAndZero ==
    (pc = "done" /\ Len(input_files) > 1) =>
        /\ outcome \in {"true", "false"}
        /\ (outcome = "true") <=>
              /\ Range(launched) = Range(input_files)
              /\ \A j \in Range(input_files) : returncode[j] = 0
        /\ \A j \in Range(launched) :
              /\ j \in exited
              /\ (returncode[j] # 0) => (had_error /\ outcome = "false")

\* C2 witness: a batch has returned false after a worker that succeeded and a
\* worker that failed, with a job never launched.
C2_Witness ==
    /\ pc = "done"
    /\ Len(input_files) > 1
    /\ outcome = "false"
    /\ \E j \in Range(launched) : returncode[j] = 0
    /\ \E j \in Range(launched) : returncode[j] # 0
    /\ Len(launched) < Len(input_files)

\* C3: once had_error is true it stays true, no step launches a worker or takes
\* a job off the work queue, and the batch is reported as failed.
C3_NoLaunchAfterFailure ==
    /\ [][had_error => (had_error' /\ cmds' = cmds /\ launched' = launched)]_vars
    /\ [](((pc = "done") /\ had_error) => (outcome = "false"))

\* C3 witness: a failure has been observed while work is queued, a worker is
\* in flight and there is room below the limit: the spawn is refused.
C3_Witness ==
    /\ pc = "spawn"
    /\ had_error
    /\ Len(cmds) > 0
    /\ Len(processes) > 0
    /\ Len(processes) < concurrency

\* the two states in which the scheduling loop may end
LoopExitState ==
    \/ (Len(cmds) = 0 /\ Len(processes) = 0)
    \/ (had_error /\ Len(processes) = 0)

\* C4: if every launched worker eventually exits, execute_networks eventually
\* returns; the loop is left exactly when the queue and the in-flight set are
\* empty, or a failure is recorded and the in-flight set is empty.
C4_LoopTerminates ==
    /\ <>(pc = "done")
    /\ [][(pc = "test") => ((pc' = "return") <=> LoopExitState)]_vars
    /\ []((pc \in {"return", "done"} /\ Len(input_files) > 1) => LoopExitState)

\* C4 witness: the loop has ended on the failure exit with work left queued.
C4_Witness ==
    /\ pc = "done"
    /\ Len(input_files) > 1
    /\ had_error
    /\ Len(cmds) > 0
    /\ Len(processes) = 0

RoundEnded == pc = "poll" /\ i > Len(processes)

\* C14: at the end of every polling round no worker that had exited when the
\* round started is still in the in-flight set, and the non-zero exit status
\* of such a worker has been recorded.
C14_ExitedWorkersPolledInRound ==
    RoundEnded =>
        /\ Range(processes) \cap exited0 = {}
        /\ \A w \in exited0 : (returncode[w] # 0) => had_error

\* the list in the opposite order
Reverse(seq) == [k \in 1..Len(seq) |-> seq[Len(seq) + 1 - k]]

\* the jobs of a list up to and including the first one that exits non-zero
RECURSIVE ThroughFirstFailure(_, _)
ThroughFirstFailure(seq, rc) ==
    IF Len(seq) = 0 THEN <<>>
    ELSE IF rc[Head(seq)] # 0 THEN <<Head(seq)>>
    ELSE <<Head(seq)>> \o ThroughFirstFailure(Tail(seq), rc)

\* the sequence a begins the sequence b
IsPrefix(a, b) == Len(a) <= Len(b) /\ \A k \in 1..Len(a) : a[k] = b[k]

\* the jobs launched when every worker exits before the next round starts
SerialLaunches ==
    ThroughFirstFailure(ListOf(Reverse(input_files), Len(input_files)),
                        returncode)

\* C15, as claimed: the jobs launched are the same in every execution of a
\* job list with given exit statuses and limit; the execution in which every
\* worker exits at once launches the jobs through the first failing one, so
\* every execution launches exactly those.
C15_LaunchesDeterministic ==
    (pc = "done" /\ Len(input_files) > 1) =>
        (Len(launched) = Len(SerialLaunches) /\ IsPrefix(launched, SerialLaunches))

\* C15, amended: the jobs launched reach at least through the first failing
\* job of the reversed list; they are all jobs when no job fails, and exactly
\* the jobs through the first failing one when the limit is 1.
C15_LaunchesDeterministicSerialOrNoFailure ==
    (pc = "done" /\ Len(input_files) > 1) =>
        /\ IsPrefix(SerialLaunches, launched)
        /\ (\A j \in Range(input_files) : returncode[j] = 0)
              => (Len(launched) = Len(input_files))
        /\ (concurrency = 1) => (Len(launched) = Len(SerialLaunches))

\* C15 witness: with a limit of two workers a batch whose first launched job
\* fails has returned after launching a further job.
C15_Witness ==
    /\ pc = "done"
    /\ Len(input_files) > 1
    /\ concurrency = 2
    /\ returncode[Last(input_files)] # 0
    /\ Len(launched) > Len(SerialLaunches)
    /\ IsPrefix(SerialLaunches, launched)

\* C16: the jobs launched so far are always a prefix of the reversed input
\* list; a job is launched only by the spawn at the start of a polling round
\* (or by the single-job path), one at a time; and a batch without a failing
\* job has launched every job exactly once when it returns.
C16_LaunchOrderIsLifo ==
    /\ [](IsPrefix(launched, ListOf(Reverse(input_files), Len(input_files))))
    /\ [][(launched' # launched)
            => /\ launched' = Append(launched, launched'[Len(launched')])
               /\ (pc = "spawn" /\ pc' = "poll") \/ pc = "start"]_vars
    /\ []((pc = "done" /\ Len(input_files) > 1
            /\ \A j \in Range(input_files) : returncode[j] = 0)
          => (launched = ListOf(Reverse(input_files), Len(input_files))))

\* C16 witness: a batch of three jobs without failure has returned, and the
\* jobs were launched last first.
C16_Witness ==
    /\ pc = "done"
    /\ outcome = "true"
    /\ Len(input_files) = 3
    /\ launched = <<3, 2, 1>>

\* C17: a worker leaves the in-flight set only after it has exited, and when
\* execute_networks returns, with or without a failure, the in-flight set is
\* empty and every worker launched has exited.
C17_ReturnsAfterAllWorkersExited ==
    /\ [][\A w \in Range(processes) \ Range(processes') : w \in exited]_vars
    /\ []((pc \in {"return", "done"} /\ Len(input_files) > 1)
          => (Len(processes) = 0 /\ Range(launched) \subseteq exited))

\* C17 witness: a batch has returned false after two workers were in flight
\* when the failure was recorded; both have exited.
C17_Witness ==
    /\ pc = "done"
    /\ outcome = "false"
    /\ Len(input_files) > 1
    /\ Len(launched) >= 2
    /\ returncode[launched[1]] # 0
    /\ Len(processes) = 0
    /\ Range(launched) \subseteq exited

(***************************************************************************)
(* Properties of the merger, the finalizer and the analyser.               *)
(***************************************************************************)
\* a step in which append_analysis(analysis, part) ran and returned
JoinReturned ==
    /\ apc = "instances"
    /\ apc' # "instances"
    /\ inst_i' = inst_i
    /\ err_analysis' = "none"

\* the post-state of append_analysis that C6 describes
AppendPostState(into, from, after) ==
    /\ \A n \in DOMAIN from : StartsWithDunder(n) => n \notin DOMAIN after
    /\ \A n \in DOMAIN from \ DOMAIN into :
          ~StartsWithDunder(n) => (n \in DOMAIN after /\ after[n] = from[n])
    /\ \A n \in DOMAIN from \cap DOMAIN into :
          LET idx1 == into[n].idx
              idx2 == from[n].idx
          IN  /\ n \in DOMAIN after
              /\ Len(after[n].data) = Len(into[n].data)
              /\ \A r \in 1..Min(idx1, Len(into[n].data)) :
                    after[n].data[r] = into[n].data[r]
              /\ \A r \in 1..idx2 :
                    /\ idx1 + r <= Len(after[n].data)
                    /\ after[n].data[idx1 + r] = from[n].data[r]
              /\ after[n].idx = idx1 + idx2
    /\ \A n \in DOMAIN into \ DOMAIN from :
          n \in DOMAIN after /\ after[n] = into[n]

\* C6: whenever append_analysis(into, from) returns, names starting with "__"
\* are not added, absent names are adopted with from's table, a shared name
\* keeps its rows [0, idx1), has from's rows [0, idx2) at [idx1, idx1+idx2) and
\* the cursor idx1+idx2, and the other tables of into are unchanged.
C6_AppendPostState ==
    [][JoinReturned => AppendPostState(analysis, LoadMat(part), analysis')]_vars

\* the target of every shared name has room for the rows of the part
HasCapacity(into, from) ==
    \A n \in DOMAIN from \cap DOMAIN into :
        Len(into[n].data) - into[n].idx >= from[n].idx

\* C6, within capacity: the post-state holds whenever every shared name's
\* target has room for the rows appended to it.
C6_AppendPostStateWithinCapacity ==
    [][(JoinReturned /\ HasCapacity(analysis, part))
          => AppendPostState(analysis, LoadMat(part), analysis')]_vars

\* no cursor of the mapping is past the declared size
WithinCapacity(map) == \A n \in DOMAIN map : map[n].idx <= Len(map[n].data)

\* C7: a merge into a table of the same name that lacks capacity raises, and
\* no cursor of the joined mapping is ever past the declared size.
C7_OverrunIsFatal ==
    /\ [][(apc = "instances" /\ apc' # "instances" /\ inst_i' = inst_i
              /\ ~HasCapacity(analysis, part))
            => (err_analysis' # "none")]_vars
    /\ []((apc # "done") => WithinCapacity(analysis))

\* C8: finalized, the parts joined in list order and the parts joined in the
\* opposite order and grouping are the same mapping (data rows in the same
\* order, timing maps, keys, simulator), when capacity sufficed.
C8_MergeOrderIndependent ==
    [][(apc = "read" /\ apc' = "done"
          /\ err_analysis = "none" /\ err_reversed = "none"
          /\ WithinCapacity(analysis) /\ WithinCapacity(reversed))
        => (analysis' = reversed')]_vars

\* row a is before row b in the order C9 describes: the first of the columns
\* c..dims in which they differ decides
RECURSIVE ColumnZeroFirstLess(_, _, _, _)
ColumnZeroFirstLess(a, b, c, dims) ==
    IF c > dims THEN FALSE
    ELSE IF a[c] # b[c] THEN QLess(a[c], b[c])
    ELSE ColumnZeroFirstLess(a, b, c + 1, dims)

SameKey(a, b, dims) == \A c \in 1..dims : a[c] = b[c]

\* the rows of a matrix that have the key of the given row, in their order
RECURSIVE RowsWithKey(_, _, _)
RowsWithKey(data, row, dims) ==
    IF Len(data) = 0 THEN <<>>
    ELSE IF SameKey(Head(data), row, dims)
         THEN <<Head(data)>> \o RowsWithKey(Tail(data), row, dims)
         ELSE RowsWithKey(Tail(data), row, dims)

\* after is before, stably sorted ascending on (column 0, ..., column dims-1)
StableColumnZeroFirstSort(before, after, dims) ==
    /\ Len(after) = Len(before)
    /\ \A k \in 1..(Len(after) - 1) :
          ~ColumnZeroFirstLess(after[k + 1], after[k], 1, dims)
    /\ \A row \in Range(before) \cup Range(after) :
          RowsWithKey(after, row, dims) = RowsWithKey(before, row, dims)

\* C9: for every table with dims >= 1, finalize_analysis reorders whole rows as
\* a stable ascending lexicographic sort on the columns 0..dims-1, column 0
\* being the primary key.
C9_SortColumnZeroPrimary ==
    [][(apc = "read" /\ apc' = "done" /\ err_result = "none")
        => \A n \in DOMAIN result :
              (result[n].dims >= 1) =>
                  StableColumnZeroFirstSort(result[n].data, result'[n].data,
                                            result[n].dims)]_vars

\* the accumulated timings of a mapping, summed over its tables
RECURSIVE TimeTotals(_)
TimeTotals(map) ==
    IF DOMAIN map = {} THEN ZeroTimes
    ELSE LET n == CHOOSE x \in DOMAIN map : TRUE
         IN  AddTimes(map[n].time,
                      TimeTotals([x \in DOMAIN map \ {n} |-> map[x]]))

\* C10: between two job results, the timing accumulated in the running result
\* equals, per key, the sum of the timings of the jobs analysed so far (those
\* with at least one instance): each job is counted once, not once per instance.
C10_TimingAddedOncePerJob ==
    (apc = "read" /\ err_result = "none") => (TimeTotals(result) = times_sum)

\* C10 witness: two job results have been analysed without error, the second
\* one with two instances.
C10_Witness ==
    /\ apc = "read"
    /\ err_result = "none"
    /\ n_read = 2
    /\ inst_i = 2
    /\ TimeTotals(result) = times_sum
    /\ times_sum # ZeroTimes

\* the indices of the infinite and of the finite latencies of an instance
InfiniteAt(lat) == {k \in 1..Len(lat) : lat[k] = Inf}
FiniteAt(lat) == {k \in 1..Len(lat) : lat[k] # Inf}

\* the sum of the latencies at the indices in S
RECURSIVE SumAt(_, _)
SumAt(lat, S) ==
    IF S = {} THEN Zero
    ELSE LET k == CHOOSE x \in S : TRUE
         IN  QAdd(lat[k], SumAt(lat, S \ {k}))

\* the metric columns of the row C13 describes, for the instance a
MetricEdgeCases(a, row, offs) ==
    LET m == a.measured
        dp == a.data_params
        lat == m.latencies
        n == Cardinality(FiniteAt(lat))
    IN  /\ (m.I_ref = 0) => (row[offs + 2] = Zero)
        /\ (dp.n_samples * (dp.n_bits_out - dp.n_ones_out) = 0)
              => (row[offs + 5] = Zero /\ row[offs + 7] = Zero)
        /\ (dp.n_samples * dp.n_ones_out = 0) => (row[offs + 9] = Zero)
        /\ \A c \in {2, 5, 7, 9} : row[offs + c][2] = 1 \/ row[offs + c][1] # 0
        /\ \A c \in {2, 5, 7, 9} : row[offs + c][2] # 0
        /\ row[offs + 12] = <<Cardinality(InfiniteAt(lat)), 1>>
        /\ (n > 0) => (QMul(row[offs + 10], <<n, 1>>) = SumAt(lat, FiniteAt(lat)))
        /\ (n = 0) => /\ row[offs + 10] = Inf
                      /\ row[offs + 11] = Zero
                      /\ row[offs + 12] = <<Len(lat), 1>>

\* C13: every instance analysed yields a row whose normalized metrics are
\* exactly 0 when their normalizer is 0 (and are numbers otherwise), whose
\* n_lat_inv is the number of infinite latencies, whose lat_avg is the mean
\* of the finite latencies, and, when no latency is finite, whose lat_avg is
\* +infinity, lat_std is 0 and n_lat_inv is the latency count; computing the
\* metrics raises nothing (only a full table does).
C13_MetricEdgeCases ==
    [][(apc = "instances" /\ inst_i' = inst_i + 1)
        => LET name == cur'.meta_data.experiment_name
               tab == result'[name]
           IN  IF err_result' = "none"
               THEN MetricEdgeCases(cur', tab.data[tab.idx], tab.dims)
               ELSE /\ name \in DOMAIN result
                    /\ result[name].idx >= Len(result[name].data)]_vars

\* C13 witness: an instance with zero normalizers and no finite latency has
\* been analysed into a row.
C13_Witness ==
    /\ apc = "instances"
    /\ inst_i >= 1
    /\ err_result = "none"
    /\ cur.measured.I_ref = 0
    /\ cur.data_params.n_samples = 0
    /\ FiniteAt(cur.measured.latencies) = {}
    /\ LET tab == result[cur.meta_data.experiment_name]
       IN  /\ tab.data[tab.idx][tab.dims + 2] = Zero
           /\ tab.data[tab.idx][tab.dims + 10] = Inf
           /\ tab.data[tab.idx][tab.dims + 12] = <<2, 1>>

\* the cursor of every table of the mapping is between 0 and the declared size
CursorInRange(map) ==
    \A n \in DOMAIN map : 0 <= map[n].idx /\ map[n].idx <= Len(map[n].data)

\* the step of analyse_output from the mapping before to the mapping after
\* (err: what it raised) wrote the row of instance a at the cursor and advanced
\* the cursor by one, or raised on a full table and left the cursor alone
RowAppended(before, after, err, a) ==
    LET name == a.meta_data.experiment_name
        idx0 == IF name \in DOMAIN before THEN before[name].idx ELSE 0
    IN  /\ name \in DOMAIN after
        /\ IF err = "none"
           THEN /\ idx0 < Len(after[name].data)
                /\ after[name].idx = idx0 + 1
                /\ after[name].data[idx0 + 1] = Values(a)
           ELSE /\ idx0 >= Len(after[name].data)
                /\ after[name].idx = idx0

\* C18: the cursor of every accumulating table stays between 0 and the
\* declared size; an analysed instance writes one row at the cursor and
\* advances it by one, or raises on a full table without advancing; a merge
\* advances the cursor by the number of rows of the part, all of them copied.
C18_CursorCountsRows ==
    /\ []((apc # "done") => (CursorInRange(part) /\ CursorInRange(analysis)))
    /\ [][(apc = "instances" /\ inst_i' = inst_i + 1)
            => RowAppended(part, part', err_analysis', cur')]_vars
    /\ [][JoinReturned
            => \A n \in DOMAIN part \cap DOMAIN analysis :
                  /\ analysis'[n].idx = analysis[n].idx + part[n].idx
                  /\ analysis'[n].idx <= Len(analysis'[n].data)
                  /\ \A r \in 1..part[n].idx :
                        analysis'[n].data[analysis[n].idx + r]
                            = part[n].data[r]]_vars

\* C18 for analyse_output alone: in the running mapping of
\* analyse_output_files the cursor stays in range and every instance writes
\* one row at the cursor or raises on a full table.
C18_AnalyseOutputCursor ==
    /\ []((apc # "done") => CursorInRange(result))
    /\ [][(apc = "instances" /\ inst_i' = inst_i + 1)
            => RowAppended(result, result', err_result', cur')]_vars

\* the number of positions of the list that hold the row
CountRow(data, row) == Cardinality({k \in 1..Len(data) : data[k] = row})

\* the first idx rows of after are the first idx rows of before, rearranged,
\* in an order the sort of the varied-parameter columns accepts
ValidRowsSortedFirst(before, after, idx, dims) ==
    LET valid == SubSeq(before, 1, idx)
        first == SubSeq(after, 1, idx)
    IN  /\ Len(after) = Len(before)
        /\ \A row \in Range(valid) \cup Range(first) :
              CountRow(first, row) = CountRow(valid, row)
        /\ \A k \in 1..(idx - 1) : ~LexLess(first[k + 1], first[k], dims)

\* C19: finalize_analysis of a table whose cursor is below its row count
\* leaves the previously valid rows, sorted, in the first idx rows: no row
\* that was never written is among or before them.
C19_OnlyValidRowsSorted ==
    [][(apc = "read" /\ apc' = "done" /\ err_result = "none")
        => \A n \in DOMAIN result :
              (result[n].dims >= 1 /\ result[n].idx < Len(result[n].data))
                  => ValidRowsSortedFirst(result[n].data, result'[n].data,
                                          result[n].idx, result[n].dims)]_vars

(***************************************************************************)
(* Properties of the program as a whole.                                   *)
(***************************************************************************)
\* the finalized table of a batch whose jobs all ran one after the other and
\* wrote their output files
SerialTable(m, files) ==
    FinalizeAnalysis(CombineOutputFiles(m, files, Range(files)).map)

\* C11: when every job of a batch succeeded, the target written by "process"
\* and "process-keep" is the table of the serial run of the same job list,
\* whatever the concurrency limit was and in whatever order the workers were
\* launched and exited.
C11_TableIndependentOfSchedule ==
    (main_pc = "exited" /\ mode \in {"process", "process-keep"}
        /\ outcome = "true")
    => /\ exit_code = 0
       /\ Len(target) = 1
       /\ target[1] = SerialTable(mode, input_files)

\* C11 witness: a batch of three jobs ran with a limit of two workers, which
\* were launched in another order than the list order, and the target with
\* two different rows was written.
C11_Witness ==
    /\ main_pc = "exited"
    /\ mode = "process"
    /\ outcome = "true"
    /\ Len(input_files) = 3
    /\ concurrency = 2
    /\ Len(target) = 1
    /\ target[1] = SerialTable(mode, input_files)
    /\ target[1]["e1"].data[1] # target[1]["e1"].data[2]

\* no job occurs twice in the launch history
NoRelaunch == \A a, b \in 1..Len(launched) : (launched[a] = launched[b]) => (a = b)

\* C12: in the modes exec, analyse-exec, process and process-keep, once
\* execute_networks has returned false the only step left is the exit with a
\* non-zero status: nothing is joined, analysed or finalized, no target is
\* written, no intermediate file is removed, and no job is launched again.
C12_FailureExitsWithoutLaterStage ==
    /\ [][(outcome = "false")
            => /\ exit_code' > 0
               /\ main_pc' = "exited"
               /\ target' = <<>>
               /\ removed' = FALSE
               /\ launched' = launched
               /\ UNCHANGED avars]_vars
    /\ []((main_pc = "exited" /\ outcome = "false") => (exit_code = 1))
    /\ []NoRelaunch

\* C12 witness: the mode process has exited after a batch that failed with
\* jobs still queued and output files of succeeded jobs on disk.
C12_Witness ==
    /\ main_pc = "exited"
    /\ mode = "process"
    /\ outcome = "false"
    /\ exit_code = 1
    /\ Len(cmds) > 0
    /\ WrittenFiles # {}
    /\ target = <<>>
    /\ ~removed

\* C20: for the output files of a batch that succeeded, joining the per-job
\* mappings in list order (route A, mode process) and analysing all jobs in
\* list order into one running mapping (route B, mode process-keep) give the
\* same tables before finalize (rows, cursor, timing map) and the same
\* finalized tables, which is what the program writes to the target.
C20_RoutesEquivalent ==
    (main_pc = "exited" /\ mode \in {"process", "process-keep"}
        /\ outcome = "true" /\ exit_code = 0)
    => LET a == CombineOutputFiles("process", input_files, WrittenFiles)
           b == CombineOutputFiles("process-keep", input_files, WrittenFiles)
       IN  /\ a.err = b.err
           /\ DOMAIN a.map = DOMAIN b.map
           /\ \A n \in DOMAIN a.map :
                 /\ a.map[n].data = b.map[n].data
                 /\ a.map[n].idx = b.map[n].idx
                 /\ a.map[n].time = b.map[n].time
           /\ target[1] = FinalizeAnalysis(a.map)
           /\ target[1] = FinalizeAnalysis(b.map)

\* C20 for the rows alone: the two routes give the same rows at the same
\* positions and the same cursor.
C20_RoutesSameRows ==
    (main_pc = "exited" /\ mode \in {"process", "process-keep"}
        /\ outcome = "true" /\ exit_code = 0)
    => LET a == CombineOutputFiles("process", input_files, WrittenFiles)
           b == CombineOutputFiles("process-keep", input_files, WrittenFiles)
       IN  /\ a.err = b.err
           /\ DOMAIN a.map = DOMAIN b.map
           /\ \A n \in DOMAIN a.map :
                 /\ a.map[n].data = b.map[n].data
                 /\ a.map[n].idx = b.map[n].idx
           /\ target[1].e1.data = FinalizeAnalysis(a.map).e1.data
           /\ target[1].e1.data = FinalizeAnalysis(b.map).e1.data

\* a step in which append_analysis(analysis, part) ran
JoinStep == apc = "instances" /\ apc' # "instances" /\ inst_i' = inst_i

\* the names the part shares with the joined mapping under other column keys
MismatchedNames(into, from) ==
    {n \in DOMAIN from \cap DOMAIN into : from[n].keys # into[n].keys}

\* C21: a merge into a table of the same name whose column keys differ (in
\* their names or in their number) raises, and the rows and the cursor of the
\* target table stay as they were.
C21_MismatchedKeysRejected ==
    [][(JoinStep /\ MismatchedNames(analysis, part) # {})
        => /\ err_analysis' # "none"
           /\ \A n \in MismatchedNames(analysis, part) :
                 analysis'[n] = analysis[n]]_vars

\* C21 for a different number of keys: such a merge raises (numpy cannot
\* assign rows of another width).
C21_OtherNumberOfKeysRejected ==
    [][(JoinStep /\ \E n \in MismatchedNames(analysis, part) :
                        Len(part[n].keys) # Len(analysis[n].keys))
        => err_analysis' # "none"]_vars

\* C22: for the empty job list execute_networks returns true, having launched
\* no worker and recorded no failure.
C22_EmptyBatchReturnsTrue ==
    (pc = "done" /\ Len(input_files) = 0)
    => (outcome = "true" /\ Len(launched) = 0 /\ ~had_error)

====
